---- MODULE Spec2Model ----
(***************************************************************************)
(* A model of toy-async: the timer event source (src/src/timer.rs over     *)
(* src/src/heap.rs and src/src/id.rs), the task executor                   *)
(* (src/src/spawn.rs, src/executor/src/lib.rs) and the blocking driver     *)
(* (src/src/block.rs).  Every thread of the program is a process with a    *)
(* program counter; one action is one atomic step of the code (one lock    *)
(* section, one atomic access, one channel operation, one park/unpark).    *)
(***************************************************************************)
EXTENDS Integers, Sequences, FiniteSets, TLC

\* ------------------------------------------------------------- bounds
MaxTime == 2
MaxCap == 3
MaxSelfWakes == 2
MaxClones == 1
MaxStages == 3

Timers == {1, 2}
Deadlines == 1..MaxTime
Wakers == {"w1", "w2"}
Tasks == {1, 2}
Caps == 0..MaxCap
Values == {1, 7}
Stages == 0..MaxStages

\* Option<T>: None is the empty sequence, Some(x) the one-element sequence.
None == <<>>
Some(x) == <<x>>
IsSome(o) == Len(o) = 1
Unwrap(o) == o[1]

VARIABLES
  \* --- timer subsystem
  clock,      \* Instant::now(), monotonic
  nextId,     \* IdGenerator.next (AtomicU64)
  scheduled,  \* EventSource.scheduled: function key -> ScheduledWaker
  tmToken,    \* the (parker, unparker) pair's notification token
  rpc,        \* EventSource::run: position of the background thread
  rnow,       \* run: local `now`
  rnext,      \* run: local `next_wake`
  rpop,       \* run: the entry returned by pop_first, being woken
  tWhen,      \* Timer.when
  tId,        \* the Id minted for the Timer by register (None before)
  tHandle,    \* Timer.handle: Some(id) once register has returned
  tpc,        \* position of the thread polling / dropping the Timer
  tWaker,     \* cx.waker() of the poll in progress
  tLast,      \* result of the Timer's last completed poll
  timeout,    \* Handle.timeout / ScheduledWaker.notifier (Arc<AtomicBool>)
  invoked,    \* history: <<timer, waker>> pairs whose Waker::wake ran
  \* --- task executor
  cap,        \* max_queued_tasks of sync_channel
  queue,      \* the channel's buffer of Arc<Task>, oldest first
  wpc,        \* Executor::run: position of the worker thread
  wcur,       \* the task the worker holds while polling (None otherwise)
  wleft,      \* wake calls the poll in progress still has to perform
  kind,       \* "ready": completes on its first resumption; "any": free
  val,        \* the computation's output value
  spc,        \* position of the thread calling spawn for each task
  fut,        \* the task's future: "none", "pending", "done"
  chan,       \* the oneshot channel: "empty", "value", "taken"
  hpc,        \* the Handle: "none", "pending", "ready", "panicked", "dropped"
  hval,       \* the value the Handle resolved to (None before)
  clones,     \* Waker clones of the task held outside the worker
  repolled,   \* history: the future was polled again after it completed
  burst,      \* history: entries enqueued by wakes since the task's last
              \* resumption began
  \* --- blocking driver
  bpc,        \* block_on: position of the calling thread
  bToken,     \* the driver's parker token
  bNeed,      \* events the computation waits for before it is ready
  bSeen,      \* events that have happened
  bVal,       \* the computation's output value
  bOut,       \* block_on's return value (None before)
  bWaker,     \* the computation holds a clone of the Waker
  evpc,       \* the event source: "idle", or "wake" when about to wake
  bLastPoll   \* result of the last poll: "none", "pending", "ready"

timerVars == <<clock, nextId, scheduled, tmToken, rpc, rnow, rnext, rpop,
               tWhen, tId, tHandle, tpc, tWaker, tLast, timeout,
               invoked>>
execVars == <<cap, queue, wpc, wcur, wleft, kind, val, spc, fut, chan, hpc,
              hval, clones, repolled, burst>>
blockVars == <<bpc, bToken, bNeed, bSeen, bVal, bOut, bWaker, evpc,
               bLastPoll>>
vars == <<timerVars, execVars, blockVars>>

\* =====================================================================
\* Ordered associative store (src/src/heap.rs) and identifiers (id.rs)
\* =====================================================================

\* Ord for (Instant, Id<Timer>): lexicographic, Id by its integer.
KeyLess(a, b) == a[1] < b[1] \/ (a[1] = b[1] /\ a[2] < b[2])

\* A bug variant: the maximum key, as pop_last / last_key_value would give.
MaxKey(m) == CHOOSE k \in DOMAIN m : \A j \in DOMAIN m : j = k \/ KeyLess(j, k)

\* BTreeMap::first_key_value / pop_first: the minimum key of a non-empty map.
MinKey(m) == CHOOSE k \in DOMAIN m : \A j \in DOMAIN m : j = k \/ KeyLess(k, j)

\* OrderedMap::first_key
FirstKey(m) == IF DOMAIN m = {} THEN None ELSE Some(MinKey(m))

\* OrderedMap::pop_first: the map left after removing the minimum.
PopFirstRest(m) == [k \in DOMAIN m \ {MinKey(m)} |-> m[k]]

\* OrderedMap::pop_first: the (key, value) returned, None on an empty map.
PopFirstEntry(m) ==
  IF DOMAIN m = {} THEN None
  ELSE Some([key |-> MinKey(m), val |-> m[MinKey(m)]])

\* OrderedMap::insert
Insert(m, key, value) ==
  [k \in DOMAIN m \cup {key} |-> IF k = key THEN value ELSE m[k]]

\* A bug variant: the delete removes the first entry, whatever the key.
DeleteFirst(m, key) == IF DOMAIN m = {} THEN m ELSE PopFirstRest(m)

\* OrderedMap::delete
Delete(m, key) == [k \in DOMAIN m \ {key} |-> m[k]]

\* A bug variant: an update that inserts the entry when the key is absent.
UpdateUpsert(m, key, waker) ==
  Insert(m, key, [waker |-> waker,
                  notifier |-> CHOOSE t \in Timers : tId[t] = Some(key[2])])

\* OrderedMap::update with the closure of EventSource::update:
\* |w| ScheduledWaker { waker, ..w }
Update(m, key, waker) ==
  IF key \in DOMAIN m
  THEN Insert(Delete(m, key), key, [m[key] EXCEPT !.waker = waker])
  ELSE m

EmptyMap == [k \in {} |-> None]


\* =====================================================================
\* Timer subsystem (src/src/timer.rs)
\* =====================================================================

\* The key of a Timer whose identifier has been minted.
KeyOf(t) == <<tWhen[t], Unwrap(tId[t])>>

\* Unparker::unpark: make the token available.
Unpark == TRUE

\* Timer::new for every Timer, EventSource::try_new, IdGenerator::default.
TimerStart ==
  /\ clock = 0
  /\ nextId = 0
  /\ scheduled = EmptyMap
  /\ tmToken = FALSE
  /\ rpc = "now"
  /\ rnow = 0
  /\ rnext = 0
  /\ rpop = None
  /\ tId = [t \in Timers |-> None]
  /\ tHandle = [t \in Timers |-> None]
  /\ tpc = [t \in Timers |-> "idle"]
  /\ tWaker = [t \in Timers |-> "w1"]
  /\ tLast = [t \in Timers |-> "none"]
  /\ timeout = [t \in Timers |-> FALSE]
  /\ invoked = {}

\* Time passes (Instant::now() is monotonic).
Tick ==
  /\ clock < MaxTime
  /\ clock' = clock + 1
  /\ UNCHANGED <<nextId, scheduled, tmToken, rpc, rnow, rnext, rpop, tWhen,
                 tId, tHandle, tpc, tWaker, tLast, timeout, invoked>>
  /\ UNCHANGED <<execVars, blockVars>>

\* A bug variant: the increment is lost and the counter stays.
IdNextLost == nextId

\* IdGenerator::next: fetch_add(1) returns the previous value.
IdNext == nextId + 1

\* Timer::poll, first resumption: EventSource::register mints the id.
PollRegister(t, w) ==
  /\ tpc[t] = "idle"
  /\ tHandle[t] = None
  /\ tId' = [tId EXCEPT ![t] = Some(nextId)]
  /\ nextId' = IdNext
  /\ tWaker' = [tWaker EXCEPT ![t] = w]
  /\ tpc' = [tpc EXCEPT ![t] = "reg_insert"]
  /\ UNCHANGED <<clock, scheduled, tmToken, rpc, rnow, rnext, rpop, tWhen,
                 tHandle, tLast, timeout, invoked>>
  /\ UNCHANGED <<execVars, blockVars>>

\* EventSource::register: a fresh notifier, then scheduled.insert.
RegInsert(t) ==
  /\ tpc[t] = "reg_insert"
  /\ scheduled' = Insert(scheduled, KeyOf(t),
                         [waker |-> tWaker[t], notifier |-> t])
  /\ timeout' = [timeout EXCEPT ![t] = FALSE]
  /\ tpc' = [tpc EXCEPT ![t] = "reg_unpark"]
  /\ UNCHANGED <<clock, nextId, tmToken, rpc, rnow, rnext, rpop, tWhen, tId,
                 tHandle, tWaker, tLast, invoked>>
  /\ UNCHANGED <<execVars, blockVars>>

\* EventSource::register: unpark, return the Handle; poll stores it.
RegUnpark(t) ==
  /\ tpc[t] = "reg_unpark"
  /\ tmToken' = Unpark
  /\ tHandle' = [tHandle EXCEPT ![t] = tId[t]]
  /\ tpc' = [tpc EXCEPT ![t] = "load"]
  /\ UNCHANGED <<clock, nextId, scheduled, rpc, rnow, rnext, rpop, tWhen,
                 tId, tWaker, tLast, timeout, invoked>>
  /\ UNCHANGED <<execVars, blockVars>>

\* Timer::poll, later resumption: EventSource::update replaces the waker.
PollUpdate(t, w) ==
  /\ tpc[t] = "idle"
  /\ tHandle[t] # None
  /\ tWaker' = [tWaker EXCEPT ![t] = w]
  /\ scheduled' = Update(scheduled, <<tWhen[t], Unwrap(tHandle[t])>>, w)
  /\ tpc' = [tpc EXCEPT ![t] = "upd_unpark"]
  /\ UNCHANGED <<clock, nextId, tmToken, rpc, rnow, rnext, rpop, tWhen, tId,
                 tHandle, tLast, timeout, invoked>>
  /\ UNCHANGED <<execVars, blockVars>>

\* EventSource::update: unpark.
UpdUnpark(t) ==
  /\ tpc[t] = "upd_unpark"
  /\ tmToken' = Unpark
  /\ tpc' = [tpc EXCEPT ![t] = "load"]
  /\ UNCHANGED <<clock, nextId, scheduled, rpc, rnow, rnext, rpop, tWhen,
                 tId, tHandle, tWaker, tLast, timeout, invoked>>
  /\ UNCHANGED <<execVars, blockVars>>

\* A bug variant: the poll reports Pending whatever the notifier holds.
PollResultPending(flag) == "Pending"

\* The result of Timer::poll from the notifier it loads.
PollResult(flag) == IF flag THEN "Ready" ELSE "Pending"

\* Timer::poll: handle.timeout.load decides Ready or Pending.
PollLoad(t) ==
  /\ tpc[t] = "load"
  /\ tLast' = [tLast EXCEPT ![t] = PollResult(timeout[t])]
  /\ tpc' = [tpc EXCEPT ![t] = "idle"]
  /\ UNCHANGED <<clock, nextId, scheduled, tmToken, rpc, rnow, rnext, rpop,
                 tWhen, tId, tHandle, tWaker, timeout, invoked>>
  /\ UNCHANGED <<execVars, blockVars>>

\* Drop for Timer with no handle: nothing to deregister.
DropUnregistered(t) ==
  /\ tpc[t] = "idle"
  /\ tHandle[t] = None
  /\ tpc' = [tpc EXCEPT ![t] = "dropped"]
  /\ UNCHANGED <<clock, nextId, scheduled, tmToken, rpc, rnow, rnext, rpop,
                 tWhen, tId, tHandle, tWaker, tLast, timeout,
                 invoked>>
  /\ UNCHANGED <<execVars, blockVars>>

\* Drop for Timer with a handle: EventSource::deregister deletes the key.
DropDeregister(t) ==
  /\ tpc[t] = "idle"
  /\ tHandle[t] # None
  /\ scheduled' = Delete(scheduled, <<tWhen[t], Unwrap(tHandle[t])>>)
  /\ tHandle' = [tHandle EXCEPT ![t] = None]
  /\ tpc' = [tpc EXCEPT ![t] = "drop_unpark"]
  /\ UNCHANGED <<clock, nextId, tmToken, rpc, rnow, rnext, rpop, tWhen, tId,
                 tWaker, tLast, timeout, invoked>>
  /\ UNCHANGED <<execVars, blockVars>>

\* EventSource::deregister: unpark; the drop has returned.
DropUnpark(t) ==
  /\ tpc[t] = "drop_unpark"
  /\ tmToken' = Unpark
  /\ tpc' = [tpc EXCEPT ![t] = "dropped"]
  /\ UNCHANGED <<clock, nextId, scheduled, rpc, rnow, rnext, rpop, tWhen,
                 tId, tHandle, tWaker, tLast, timeout, invoked>>
  /\ UNCHANGED <<execVars, blockVars>>

\* ---- EventSource::run, the background thread

\* run: let now = Instant::now()
RunNow ==
  /\ rpc = "now"
  /\ rnow' = clock
  /\ rpc' = "first_key"
  /\ UNCHANGED <<clock, nextId, scheduled, tmToken, rnext, rpop, tWhen, tId,
                 tHandle, tpc, tWaker, tLast, timeout, invoked>>
  /\ UNCHANGED <<execVars, blockVars>>

\* run: where the thread goes after the outer first_key().
AfterFirstKey(m, now) ==
  IF FirstKey(m) = None THEN "park"
  ELSE IF Unwrap(FirstKey(m))[1] > now THEN "park_deadline"
  ELSE "while_first"

\* run: if let Some(next_wake) = scheduled.first_key() ...
RunFirstKey ==
  /\ rpc = "first_key"
  /\ rnext' = IF AfterFirstKey(scheduled, rnow) = "park_deadline"
              THEN Unwrap(FirstKey(scheduled))[1] ELSE 0
  /\ rpc' = AfterFirstKey(scheduled, rnow)
  /\ UNCHANGED <<clock, nextId, scheduled, tmToken, rnow, rpop, tWhen, tId,
                 tHandle, tpc, tWaker, tLast, timeout, invoked>>
  /\ UNCHANGED <<execVars, blockVars>>

\* Parker::park_deadline(next_wake): returns on the token or at the deadline.
RunParkDeadline ==
  /\ rpc = "park_deadline"
  /\ tmToken \/ clock >= rnext
  /\ tmToken' = FALSE
  /\ rpc' = "now"
  /\ rnow' = 0
  /\ rnext' = 0
  /\ UNCHANGED <<clock, nextId, scheduled, rpop, tWhen, tId,
                 tHandle, tpc, tWaker, tLast, timeout, invoked>>
  /\ UNCHANGED <<execVars, blockVars>>

\* Parker::park(): returns once the token is available, and takes it.
RunPark ==
  /\ rpc = "park"
  /\ tmToken
  /\ tmToken' = FALSE
  /\ rpc' = "now"
  /\ rnow' = 0
  /\ UNCHANGED <<clock, nextId, scheduled, rnext, rpop, tWhen, tId,
                 tHandle, tpc, tWaker, tLast, timeout, invoked>>
  /\ UNCHANGED <<execVars, blockVars>>

\* run: the drain loop's test; TRUE when the loop goes on to pop_first.
DrainContinues(m, now) ==
  /\ FirstKey(m) # None
  /\ ~(Unwrap(FirstKey(m))[1] > now)

\* run: while let Some((when, _)) = first_key() { if when > now { break } ...
RunWhileFirst ==
  /\ rpc = "while_first"
  /\ rpc' = IF DrainContinues(scheduled, rnow) THEN "pop" ELSE "now"
  /\ rnow' = IF DrainContinues(scheduled, rnow) THEN rnow ELSE 0
  /\ UNCHANGED <<clock, nextId, scheduled, tmToken, rnext, rpop, tWhen,
                 tId, tHandle, tpc, tWaker, tLast, timeout, invoked>>
  /\ UNCHANGED <<execVars, blockVars>>

\* run: scheduled.pop_first().unwrap(); unwrap of None panics the thread.
RunPop ==
  /\ rpc = "pop"
  /\ IF PopFirstEntry(scheduled) = None
     THEN /\ rpc' = "panicked"
          /\ UNCHANGED <<scheduled, rpop>>
     ELSE /\ rpop' = PopFirstEntry(scheduled)
          /\ scheduled' = PopFirstRest(scheduled)
          /\ rpc' = "store"
  /\ UNCHANGED <<clock, nextId, tmToken, rnow, rnext, tWhen, tId, tHandle,
                 tpc, tWaker, tLast, timeout, invoked>>
  /\ UNCHANGED <<execVars, blockVars>>

\* ScheduledWaker::wake: notifier.store(true)
RunWakeStore ==
  /\ rpc = "store"
  /\ timeout' = [timeout EXCEPT ![Unwrap(rpop).val.notifier] = TRUE]
  /\ rpc' = "invoke"
  /\ UNCHANGED <<clock, nextId, scheduled, tmToken, rnow, rnext, rpop, tWhen,
                 tId, tHandle, tpc, tWaker, tLast, invoked>>
  /\ UNCHANGED <<execVars, blockVars>>

\* ScheduledWaker::wake: self.waker.wake(); back to the drain loop's test.
RunWakeInvoke ==
  /\ rpc = "invoke"
  /\ invoked' = invoked \cup
       {<<Unwrap(rpop).val.notifier, Unwrap(rpop).val.waker>>}
  /\ rpop' = None
  /\ rpc' = "while_first"
  /\ UNCHANGED <<clock, nextId, scheduled, tmToken, rnow, rnext, tWhen, tId,
                 tHandle, tpc, tWaker, tLast, timeout>>
  /\ UNCHANGED <<execVars, blockVars>>

TimerNext ==
  \/ Tick
  \/ \E t \in Timers, w \in Wakers : PollRegister(t, w)
  \/ \E t \in Timers : RegInsert(t)
  \/ \E t \in Timers : RegUnpark(t)
  \/ \E t \in Timers, w \in Wakers : PollUpdate(t, w)
  \/ \E t \in Timers : UpdUnpark(t)
  \/ \E t \in Timers : PollLoad(t)
  \/ \E t \in Timers : DropUnregistered(t)
  \/ \E t \in Timers : DropDeregister(t)
  \/ \E t \in Timers : DropUnpark(t)
  \/ RunNow
  \/ RunFirstKey
  \/ RunParkDeadline
  \/ RunPark
  \/ RunWhileFirst
  \/ RunPop
  \/ RunWakeStore
  \/ RunWakeInvoke


\* =====================================================================
\* Task executor (src/src/spawn.rs; src/executor/src/lib.rs is the same
\* code over ArcWake with a fixed capacity)
\* =====================================================================

\* Entries of task t in the ready queue.
Count(q, t) == Cardinality({i \in DOMAIN q : q[i] = t})

\* SyncSender::send can complete: there is room in the buffer; with
\* capacity 0 the send is a rendezvous with the worker's recv.
CanSend ==
  IF cap = 0 THEN wpc = "recv" /\ queue = <<>> ELSE Len(queue) < cap

\* The last Arc<Task> is gone and the future never completed: the Task is
\* dropped with the oneshot Sender still inside it.
Destroyed(t) ==
  /\ spc[t] \in {"returned", "panicked"}
  /\ fut[t] = "pending"
  /\ Count(queue, t) = 0
  /\ wcur # Some(t)
  /\ clones[t] = 0

\* Spawner::new: the channel and the worker thread; nothing spawned yet.
ExecStart ==
  /\ queue = <<>>
  /\ wpc = "recv"
  /\ wcur = None
  /\ wleft = 0
  /\ spc = [t \in Tasks |-> "idle"]
  /\ fut = [t \in Tasks |-> "none"]
  /\ chan = [t \in Tasks |-> None]
  /\ hpc = [t \in Tasks |-> "none"]
  /\ hval = [t \in Tasks |-> None]
  /\ clones = [t \in Tasks |-> 0]
  /\ repolled = [t \in Tasks |-> FALSE]
  /\ burst = [t \in Tasks |-> 0]

\* Spawner::spawn: oneshot::channel(), the Task around SelfStoreFuture.
SpawnCall(t) ==
  /\ spc[t] = "idle"
  /\ spc' = [spc EXCEPT ![t] = "sending"]
  /\ fut' = [fut EXCEPT ![t] = "pending"]
  /\ UNCHANGED <<cap, queue, wpc, wcur, wleft, kind, val, chan, hpc, hval,
                 clones, repolled>>
  /\ UNCHANGED burst
  /\ UNCHANGED <<timerVars, blockVars>>

\* A bug variant: the new entry goes to the front of the buffer.
EnqueueFront(q, t) == <<t>> \o q

\* The queue after SyncSender::send of task t.
Enqueue(q, t) == Append(q, t)

\* Spawner::spawn: self.sender.send(Arc::new(task)) returns Ok; the Handle
\* is returned.
SpawnSend(t) ==
  /\ spc[t] = "sending"
  /\ wpc # "panicked"
  /\ CanSend
  /\ queue' = Enqueue(queue, t)
  /\ spc' = [spc EXCEPT ![t] = "returned"]
  /\ hpc' = [hpc EXCEPT ![t] = "pending"]
  /\ UNCHANGED <<cap, wpc, wcur, wleft, kind, val, fut, chan, hval, clones,
                 repolled>>
  /\ UNCHANGED burst
  /\ UNCHANGED <<timerVars, blockVars>>

\* Spawner::spawn: the receiver is gone, send returns Err, unwrap panics.
SpawnSendFail(t) ==
  /\ spc[t] = "sending"
  /\ wpc = "panicked"
  /\ spc' = [spc EXCEPT ![t] = "panicked"]
  /\ UNCHANGED <<cap, queue, wpc, wcur, wleft, kind, val, fut, chan, hpc,
                 hval, clones, repolled>>
  /\ UNCHANGED burst
  /\ UNCHANGED <<timerVars, blockVars>>

\* Executor::run: the iterator's recv hands the oldest task to the worker.
WorkerRecv ==
  /\ wpc = "recv"
  /\ queue # <<>>
  /\ wcur' = Some(Head(queue))
  /\ queue' = Tail(queue)
  /\ wpc' = "poll"
  /\ UNCHANGED <<cap, wleft, kind, val, spc, fut, chan, hpc, hval, clones,
                 repolled>>
  /\ burst' = [burst EXCEPT ![Head(queue)] = 0]
  /\ UNCHANGED <<timerVars, blockVars>>

\* SelfStoreFuture::poll on Ready(output): sender.send(output).ok().  The
\* channel after the send: the value, unless the Receiver was dropped.
Deliver(t) == IF hpc[t] = "dropped" THEN chan[t] ELSE Some(val[t])

\* SelfStoreFuture::poll: .ok() ignores the send's result, the poll
\* returns and the worker goes back to its loop.
AfterDeliver(t) == "recv"

\* Executor::run polls the task and the computation returns Ready after
\* handing c clones of the Waker to other threads and calling wake on its
\* own Waker s times.  The wakes are made inside the poll, before the
\* output is sent: with s = 0 the poll completes here, otherwise the
\* worker first performs the wakes.
WorkerPollReady(s, c) ==
  /\ wpc = "poll"
  /\ fut[Unwrap(wcur)] = "pending"
  /\ clones[Unwrap(wcur)] + c <= MaxClones
  /\ clones' = [clones EXCEPT ![Unwrap(wcur)] = @ + c]
  /\ wleft' = s
  /\ fut' = IF s > 0 THEN fut ELSE [fut EXCEPT ![Unwrap(wcur)] = "done"]
  /\ chan' = IF s > 0 THEN chan
             ELSE [chan EXCEPT ![Unwrap(wcur)] = Deliver(Unwrap(wcur))]
  /\ wpc' = IF s > 0 THEN "wake_ready" ELSE AfterDeliver(Unwrap(wcur))
  /\ wcur' = IF s > 0 THEN wcur ELSE None
  /\ UNCHANGED <<cap, queue, kind, val, spc, hpc, hval, repolled>>
  /\ UNCHANGED burst
  /\ UNCHANGED <<timerVars, blockVars>>

\* SelfStoreFuture::poll maps the Ready output after the computation's
\* wakes: the output is sent and the poll returns.
WorkerDeliver ==
  /\ wpc = "deliver"
  /\ fut' = [fut EXCEPT ![Unwrap(wcur)] = "done"]
  /\ chan' = [chan EXCEPT ![Unwrap(wcur)] = Deliver(Unwrap(wcur))]
  /\ wpc' = AfterDeliver(Unwrap(wcur))
  /\ wcur' = None
  /\ UNCHANGED <<cap, queue, wleft, kind, val, spc, hpc, hval, clones,
                 repolled>>
  /\ UNCHANGED burst
  /\ UNCHANGED <<timerVars, blockVars>>

\* Executor::run polls the task and the computation returns Pending after
\* handing c clones of the Waker to other threads and calling wake on its
\* own Waker s times (the calls are made inside the poll, on the worker).
WorkerPollPending(s, c) ==
  /\ wpc = "poll"
  /\ fut[Unwrap(wcur)] = "pending"
  /\ kind[Unwrap(wcur)] = "any"
  /\ clones[Unwrap(wcur)] + c <= MaxClones
  /\ clones' = [clones EXCEPT ![Unwrap(wcur)] = @ + c]
  /\ wleft' = s
  /\ wpc' = IF s > 0 THEN "wake" ELSE "recv"
  /\ wcur' = IF s > 0 THEN wcur ELSE None
  /\ UNCHANGED <<cap, queue, kind, val, spc, fut, chan, hpc, hval, repolled>>
  /\ UNCHANGED burst
  /\ UNCHANGED <<timerVars, blockVars>>

\* Task::wake / wake_by_ref called by the poll in progress:
\* self.sender.send(self.clone()) on the worker thread itself.
WorkerSelfWake ==
  /\ wpc \in {"wake", "wake_ready"}
  /\ CanSend
  /\ queue' = Enqueue(queue, Unwrap(wcur))
  /\ wleft' = wleft - 1
  /\ wpc' = IF wleft > 1 THEN wpc
            ELSE IF wpc = "wake" THEN "recv" ELSE "deliver"
  /\ wcur' = IF wleft = 1 /\ wpc = "wake" THEN None ELSE wcur
  /\ UNCHANGED <<cap, kind, val, spc, fut, chan, hpc, hval, clones, repolled>>
  /\ burst' = [burst EXCEPT ![Unwrap(wcur)] = @ + 1]
  /\ UNCHANGED <<timerVars, blockVars>>

\* Executor::run polls a task whose future already completed and the
\* future panics (an async block resumed after completion): the worker
\* thread unwinds and drops the Receiver with everything queued.
WorkerRepollPanic ==
  /\ wpc = "poll"
  /\ fut[Unwrap(wcur)] = "done"
  /\ repolled' = [repolled EXCEPT ![Unwrap(wcur)] = TRUE]
  /\ wpc' = "panicked"
  /\ wcur' = None
  /\ queue' = <<>>
  /\ UNCHANGED <<cap, wleft, kind, val, spc, fut, chan, hpc, hval, clones>>
  /\ burst' = [t \in Tasks |-> 0]
  /\ UNCHANGED <<timerVars, blockVars>>

\* Executor::run polls a task whose future already completed and the
\* future returns again: output was taken, nothing is sent.
WorkerRepollQuiet ==
  /\ wpc = "poll"
  /\ fut[Unwrap(wcur)] = "done"
  /\ repolled' = [repolled EXCEPT ![Unwrap(wcur)] = TRUE]
  /\ wpc' = "recv"
  /\ wcur' = None
  /\ UNCHANGED <<cap, queue, wleft, kind, val, spc, fut, chan, hpc, hval,
                 clones>>
  /\ UNCHANGED burst
  /\ UNCHANGED <<timerVars, blockVars>>

\* Task::wake on a Waker clone held by another thread (a timer, a channel).
ExternalWake(t) ==
  /\ clones[t] > 0
  /\ wpc # "panicked"
  /\ CanSend
  /\ queue' = Enqueue(queue, t)
  /\ clones' = [clones EXCEPT ![t] = @ - 1]
  /\ UNCHANGED <<cap, wpc, wcur, wleft, kind, val, spc, fut, chan, hpc, hval,
                 repolled>>
  /\ burst' = [burst EXCEPT ![t] = @ + 1]
  /\ UNCHANGED <<timerVars, blockVars>>

\* Task::wake after the worker died: expect("send failed") panics.
ExternalWakeFail(t) ==
  /\ clones[t] > 0
  /\ wpc = "panicked"
  /\ clones' = [clones EXCEPT ![t] = @ - 1]
  /\ UNCHANGED <<cap, queue, wpc, wcur, wleft, kind, val, spc, fut, chan,
                 hpc, hval, repolled>>
  /\ UNCHANGED burst
  /\ UNCHANGED <<timerVars, blockVars>>

\* A Waker clone is dropped without being woken.
DropClone(t) ==
  /\ clones[t] > 0
  /\ clones' = [clones EXCEPT ![t] = @ - 1]
  /\ UNCHANGED <<cap, queue, wpc, wcur, wleft, kind, val, spc, fut, chan,
                 hpc, hval, repolled>>
  /\ UNCHANGED burst
  /\ UNCHANGED <<timerVars, blockVars>>

\* Handle::poll: receiver.poll(cx).map(Result::unwrap).  Ok(v) is Ready(v);
\* Err(Canceled) makes unwrap panic: the Sender was dropped with the Task,
\* or the value was taken by an earlier poll; otherwise the Handle stays
\* pending.
HandleOutcome(t) ==
  IF chan[t] # None THEN "ready"
  ELSE IF Destroyed(t) \/ hpc[t] = "ready" THEN "panicked"
  ELSE "pending"

\* Handle::poll, on a Handle not yet resolved or polled again after it
\* returned Ready.
HandlePoll(t) ==
  /\ hpc[t] \in {"pending", "ready"}
  /\ hpc' = [hpc EXCEPT ![t] = HandleOutcome(t)]
  /\ hval' = [hval EXCEPT ![t] = IF chan[t] # None THEN chan[t] ELSE @]
  /\ chan' = [chan EXCEPT ![t] = None]
  /\ UNCHANGED <<cap, queue, wpc, wcur, wleft, kind, val, spc, fut, clones,
                 repolled>>
  /\ UNCHANGED burst
  /\ UNCHANGED <<timerVars, blockVars>>

\* The Handle is dropped unresolved: the oneshot Receiver goes away.
HandleDrop(t) ==
  /\ hpc[t] = "pending"
  /\ hpc' = [hpc EXCEPT ![t] = "dropped"]
  /\ UNCHANGED <<cap, queue, wpc, wcur, wleft, kind, val, spc, fut, chan,
                 hval, clones, repolled>>
  /\ UNCHANGED burst
  /\ UNCHANGED <<timerVars, blockVars>>

ExecNext ==
  \/ \E t \in Tasks : SpawnCall(t)
  \/ \E t \in Tasks : SpawnSend(t)
  \/ \E t \in Tasks : SpawnSendFail(t)
  \/ WorkerRecv
  \/ \E s \in 0..MaxSelfWakes, c \in 0..MaxClones : WorkerPollReady(s, c)
  \/ \E s \in 0..MaxSelfWakes, c \in 0..MaxClones : WorkerPollPending(s, c)
  \/ WorkerSelfWake
  \/ WorkerDeliver
  \/ WorkerRepollPanic
  \/ WorkerRepollQuiet
  \/ \E t \in Tasks : ExternalWake(t)
  \/ \E t \in Tasks : ExternalWakeFail(t)
  \/ \E t \in Tasks : DropClone(t)
  \/ \E t \in Tasks : HandlePoll(t)
  \/ \E t \in Tasks : HandleDrop(t)


\* =====================================================================
\* Blocking driver (src/src/block.rs)
\* =====================================================================

\* block_on entered: Signal::new, the Waker and Context built, the
\* computation not polled yet.
BlockStart ==
  /\ bpc = "poll"
  /\ bToken = FALSE
  /\ bSeen = 0
  /\ bOut = None
  /\ bWaker = FALSE
  /\ evpc = "idle"
  /\ bLastPoll = "none"

\* The computation's poll: Ready(bVal) once every event it waits for has
\* happened, Pending (keeping a clone of cx.waker()) before.
FutPoll == IF bSeen >= bNeed THEN "ready" ELSE "pending"

\* A bug variant: the loop is left whatever the poll returned.
BlockOnStepAlways(result) == "done"

\* block_on's match on the poll result: break on Ready, park on Pending.
BlockOnStep(result) == IF result = "ready" THEN "done" ELSE "park"

\* block_on: fut.as_mut().poll(context) and the match on its result.
BPoll ==
  /\ bpc = "poll"
  /\ bLastPoll' = FutPoll
  /\ bpc' = BlockOnStep(FutPoll)
  /\ bOut' = IF BlockOnStep(FutPoll) = "done" THEN Some(bVal) ELSE bOut
  /\ bWaker' = (FutPoll = "pending")
  /\ UNCHANGED <<bToken, bNeed, bSeen, bVal, evpc>>
  /\ UNCHANGED <<timerVars, execVars>>

\* block_on: parker.park() returns once the token is available.
BPark ==
  /\ bpc = "park"
  /\ bToken
  /\ bToken' = FALSE
  /\ bpc' = "poll"
  /\ UNCHANGED <<bNeed, bSeen, bVal, bOut, bWaker, evpc, bLastPoll>>
  /\ UNCHANGED <<timerVars, execVars>>

\* A bug variant: wake leaves the parker alone.
SignalWakeLost == bToken

\* Signal::wake: self.unparker.unpark() makes the token available.
SignalWake == TRUE

\* An event the computation waits for happens on another thread, which
\* takes the registered Waker to wake it.
EventHappen ==
  /\ evpc = "idle"
  /\ bSeen < bNeed
  /\ bSeen' = bSeen + 1
  /\ evpc' = IF bWaker THEN "wake" ELSE "idle"
  /\ bWaker' = FALSE
  /\ UNCHANGED <<bpc, bToken, bNeed, bVal, bOut, bLastPoll>>
  /\ UNCHANGED <<timerVars, execVars>>

\* The event's thread invokes the Waker: Signal::wake.
EventWake ==
  /\ evpc = "wake"
  /\ bToken' = SignalWake
  /\ evpc' = "idle"
  /\ UNCHANGED <<bpc, bNeed, bSeen, bVal, bOut, bWaker, bLastPoll>>
  /\ UNCHANGED <<timerVars, execVars>>

\* A wake with no event behind it (a spurious unpark): some holder of a
\* Waker clone calls wake while the computation is still pending.
StrayWake ==
  /\ bLastPoll = "pending"
  /\ bpc # "done"
  /\ ~bToken
  /\ bToken' = SignalWake
  /\ UNCHANGED <<bpc, bNeed, bSeen, bVal, bOut, bWaker, evpc, bLastPoll>>
  /\ UNCHANGED <<timerVars, execVars>>

BlockNext ==
  \/ BPoll
  \/ BPark
  \/ EventHappen
  \/ EventWake
  \/ StrayWake

\* =====================================================================
\* Specifications
\* =====================================================================

\* The subsystems a specification does not exercise stay as constructed.
TimerIdle == TimerStart /\ tWhen = [t \in Timers |-> 1]
ExecIdle ==
  /\ ExecStart
  /\ cap = 1
  /\ kind = [t \in Tasks |-> "ready"]
  /\ val = [t \in Tasks |-> 1]
BlockIdle == BlockStart /\ bNeed = 0 /\ bVal = 1

\* The timer subsystem: Timers with any deadlines, polled and dropped by
\* their owners while the background thread runs.
Init == TimerStart /\ tWhen \in [Timers -> Deadlines] /\ ExecIdle /\ BlockIdle
Next == TimerNext
Spec == Init /\ [][Next]_vars

\* The background thread is scheduled fairly and time goes on.
TimerFair ==
  /\ WF_vars(Tick)
  /\ WF_vars(RunNow)
  /\ WF_vars(RunFirstKey)
  /\ WF_vars(RunParkDeadline)
  /\ WF_vars(RunPark)
  /\ WF_vars(RunWhileFirst)
  /\ WF_vars(RunPop)
  /\ WF_vars(RunWakeStore)
  /\ WF_vars(RunWakeInvoke)
FairSpec == Spec /\ TimerFair

\* The executor: any capacity, any computations.
ExecInit ==
  /\ ExecStart
  /\ cap \in Caps
  /\ kind \in [Tasks -> {"ready", "any"}]
  /\ val = [t \in Tasks |-> IF t = 1 THEN 1 ELSE 7]
  /\ TimerIdle
  /\ BlockIdle
SpecExec == ExecInit /\ [][ExecNext]_vars

\* The worker thread and the threads blocked in send are scheduled fairly.
ExecFair ==
  /\ WF_vars(WorkerRecv)
  /\ WF_vars(\E s \in 0..MaxSelfWakes, c \in 0..MaxClones :
               WorkerPollReady(s, c) \/ WorkerPollPending(s, c))
  /\ WF_vars(WorkerSelfWake)
  /\ WF_vars(WorkerDeliver)
  /\ WF_vars(WorkerRepollPanic \/ WorkerRepollQuiet)
  /\ \A t \in Tasks : WF_vars(SpawnSend(t) \/ SpawnSendFail(t))
  /\ \A t \in Tasks : WF_vars(ExternalWake(t) \/ ExternalWakeFail(t))
FairSpecExec == SpecExec /\ ExecFair

\* The blocking driver on a computation that waits for bNeed events.
BlockInit ==
  /\ BlockStart
  /\ bNeed \in Stages
  /\ bVal \in Values
  /\ TimerIdle
  /\ ExecIdle
SpecBlock == BlockInit /\ [][BlockNext]_vars
FairSpecBlock ==
  /\ SpecBlock
  /\ WF_vars(BPoll)
  /\ WF_vars(BPark)
  /\ WF_vars(EventWake)


\* =====================================================================
\* Claims
\* =====================================================================

\* The Timer has fired: its notifier is set, its waker was invoked by the
\* background thread, or its poll returned Ready.
Fired(t) ==
  \/ timeout[t]
  \/ tLast[t] = "Ready"
  \/ \E w \in Wakers : <<t, w>> \in invoked

\* C1: a Timer never completes early: its fired flag is set, its waker is
\* invoked and its poll returns Ready only at a time >= its deadline.
C1_NeverFiresEarly == \A t \in Timers : Fired(t) => clock >= tWhen[t]

\* The worker is resuming task t.
Resuming(t) == wpc = "poll" /\ wcur = Some(t)

\* C2: a computation that completes on its first resumption with value v
\* is resumed once and its Handle resolves once, to exactly v: its task is
\* never polled a second time, its Handle never panics, and a resolved
\* Handle holds v.
C2_ReadyTaskYieldsValue ==
  \A t \in Tasks :
    kind[t] = "ready" =>
      /\ ~repolled[t]
      /\ ~(Resuming(t) /\ fut[t] = "done")
      /\ hpc[t] = "ready" => hval[t] = Some(val[t])

\* C3: no wakeup is lost: a wake of a task invoked during its own poll on
\* the worker is eventually followed by a resumption of the task (unless
\* the worker died meanwhile), for any capacity, under fair scheduling.
C3_WakeLeadsToResumption ==
  \A t \in Tasks :
    (wpc = "wake" /\ wcur = Some(t)) ~> (Resuming(t) \/ wpc = "panicked")

\* C4: the wakes of a task between two consecutive resumptions cause at
\* most two queue entries (one resumption and one extra re-poll).
C4_AtMostOneExtraRepoll == \A t \in Tasks : burst[t] <= 2

\* C5: spawning never blocks indefinitely: every call of spawn eventually
\* returns with the task placed in the queue (unless the worker died).
C5_SpawnReturns ==
  \A t \in Tasks :
    (spc[t] = "sending") ~> (spc[t] = "returned" \/ wpc = "panicked")

\* C6: polling the Handle of a Task destroyed before completion surfaces
\* a failure outcome and never crashes the polling thread: no Handle of a
\* Task whose Computation did not complete has panicked.
C6_CanceledIsNotACrash ==
  \A t \in Tasks : ~(hpc[t] = "panicked" /\ fut[t] = "pending")

\* C7: dropping a Handle does not stop its Task: the drop touches neither
\* the queue nor the task nor the worker; the worker resumes the task on
\* every wake (every queued entry of it) until it completes; the output of
\* a task whose Handle was dropped is discarded without an error and the
\* worker returns to its loop; and the worker goes on serving the other
\* tasks afterwards.
C7_DroppedHandleHarmless ==
  /\ [][\A t \in Tasks :
          /\ (hpc[t] = "pending" /\ hpc'[t] = "dropped") =>
               /\ queue' = queue
               /\ fut' = fut
               /\ clones' = clones
               /\ wpc' = wpc
               /\ wcur' = wcur
          /\ (hpc[t] = "dropped" /\ fut[t] = "pending" /\ fut'[t] = "done") =>
               /\ wpc' = "recv"
               /\ chan'[t] = None
               /\ hpc'[t] = "dropped"]_vars
  /\ \A t \in Tasks :
       (hpc[t] = "dropped" /\ fut[t] = "pending" /\ Count(queue, t) > 0) ~>
         (Resuming(t) \/ fut[t] = "done")
  /\ \A t \in Tasks, u \in Tasks :
       (/\ t # u
        /\ hpc[t] = "dropped"
        /\ fut[t] = "done"
        /\ fut[u] = "pending"
        /\ Count(queue, u) > 0) ~> Resuming(u)

\* C8: block_on returns only the output of a poll that reported Ready: it
\* has returned exactly when a poll was Ready, the computation was ready
\* then, and the value returned is the computation's output.
C8_ReturnsOnlyReadyOutput ==
  /\ (bpc = "done") = (bLastPoll = "ready")
  /\ bpc = "done" => bSeen >= bNeed /\ bOut = Some(bVal)
  /\ bpc # "done" => bOut = None
  /\ bLastPoll = "pending" => bpc \in {"park", "poll"}

\* C8 witness: block_on returned 7 after the computation waited for all
\* its events.
C8_ReturnedAfterWaiting ==
  /\ bpc = "done"
  /\ bNeed = MaxStages
  /\ bOut = Some(7)

\* C9: block_on loses no wakeup: a token set while the thread is about to
\* park (between the Pending poll and the park) makes it poll again, and
\* once the computation is ready block_on eventually returns.
C9_NoLostWakeup ==
  /\ (bpc = "park" /\ bToken) ~> (bpc = "poll")
  /\ (bSeen >= bNeed) ~> (bpc = "done" /\ bOut = Some(bVal))

\* C9 witness: the last event's wake arrived after the Pending poll and
\* before the thread parked on it.
C9_WakeBeforePark ==
  /\ bpc = "park"
  /\ bToken
  /\ bLastPoll = "pending"
  /\ bNeed > 0
  /\ bSeen = bNeed
  /\ evpc = "idle"

\* The Timer's register call has returned and the Timer is not dropped.
Registered(t) ==
  /\ tHandle[t] # None
  /\ tpc[t] \notin {"drop_unpark", "dropped"}

\* C10 as stated: of two registered Timers, the one with the earlier
\* deadline, or with the smaller identifier at equal deadlines, has fired
\* whenever the other has.
C10_FiresInKeyOrder ==
  \A a \in Timers, b \in Timers :
    (/\ Registered(a)
     /\ Registered(b)
     /\ \/ tWhen[a] < tWhen[b]
        \/ (tWhen[a] = tWhen[b] /\ Unwrap(tHandle[a]) < Unwrap(tHandle[b]))
     /\ timeout[b])
    => timeout[a]

\* C10 amended: every pop_first of the background thread removes exactly
\* the entry with the smallest (deadline, identifier) key in the store, and
\* the thread fires that entry's Timer before it pops again; so of two
\* Timers that are in the store together the smaller key fires first.
C10_PopsSmallestKey ==
  [][/\ (rpc = "pop" /\ rpc' = "store") =>
          /\ rpop' # None
          /\ Unwrap(rpop').key \in DOMAIN scheduled
          /\ DOMAIN scheduled' = DOMAIN scheduled \ {Unwrap(rpop').key}
          /\ \A k \in DOMAIN scheduled' :
               \/ Unwrap(rpop').key[1] < k[1]
               \/ /\ Unwrap(rpop').key[1] = k[1]
                  /\ Unwrap(rpop').key[2] < k[2]
     /\ (rpc = "store" /\ rpc' # "store") =>
          /\ rpc' = "invoke"
          /\ timeout'[Unwrap(rpop).val.notifier]
     /\ (rpc # "pop" /\ rpc' = "pop") => rpop = None]_vars

\* C10 witness: two Timers with the same deadline are in the store and the
\* thread has just popped the one with the smaller identifier.
C10_TiePopped ==
  /\ rpc = "store"
  /\ \E k \in DOMAIN scheduled :
       /\ k[1] = Unwrap(rpop).key[1]
       /\ k[2] > Unwrap(rpop).key[2]

\* C11: a Timer dropped before its deadline is deregistered: once the drop
\* has returned the store holds no entry under the Timer's key, and the
\* background thread does not invoke the waker of a Timer whose drop has
\* returned while time is still before the Timer's deadline.
C11_DropDeregisters ==
  /\ [](\A t \in Timers :
          (tpc[t] = "dropped" /\ tId[t] # None) =>
            KeyOf(t) \notin DOMAIN scheduled)
  /\ [][(rpc = "invoke" /\ rpc' # "invoke") =>
          ~(/\ tpc[Unwrap(rpop).val.notifier] = "dropped"
            /\ clock < tWhen[Unwrap(rpop).val.notifier])]_vars

\* The entries of the store that belong to Timer t.
Entries(t) == {k \in DOMAIN scheduled : scheduled[k].notifier = t}

\* The Timer is live: registered (its register has inserted its entry),
\* not dropped, not yet fired.
Live(t) ==
  /\ tpc[t] = "reg_unpark" \/ tHandle[t] # None
  /\ ~Fired(t)

\* The background thread holds the Timer's entry: popped, not yet woken.
Popped(t) == rpop # None /\ Unwrap(rpop).val.notifier = t

\* A re-poll replaces the stored waker of the Timer's entry, if there is
\* one, and never changes the key set; a Timer's flag is set only if its
\* waker has not been invoked before.
RepollKeepsEntries ==
  \A t \in Timers :
    /\ (tpc[t] = "idle" /\ tpc'[t] = "upd_unpark") =>
         /\ DOMAIN scheduled' = DOMAIN scheduled
         /\ \A k \in DOMAIN scheduled :
              scheduled'[k] =
                IF k \in Entries(t)
                THEN [scheduled[k] EXCEPT !.waker = tWaker'[t]]
                ELSE scheduled[k]
    /\ (~timeout[t] /\ timeout'[t]) =>
         \A w \in Wakers : <<t, w>> \notin invoked

\* C12 as stated: the store holds exactly one entry, under the Timer's own
\* key, for each live Timer (registered, not dropped, not yet fired) and
\* none for any other; a re-poll never duplicates or re-inserts an entry
\* and a Timer is fired at most once.
C12_OneEntryPerLiveTimer ==
  /\ [](\A t \in Timers :
          /\ Cardinality(Entries(t)) = IF Live(t) THEN 1 ELSE 0
          /\ \A k \in Entries(t) : tId[t] # None /\ k = KeyOf(t))
  /\ [][RepollKeepsEntries]_vars

\* C12 amended: the store holds exactly one entry, under the Timer's own
\* key, for each Timer that is registered, not dropped and whose entry the
\* background thread has not popped, and none for any other; from the pop
\* to the setting of the flag a live Timer has no entry.  A re-poll never
\* duplicates or re-inserts an entry and a Timer is fired at most once.
C12_OneEntryUntilPopped ==
  /\ [](\A t \in Timers :
          /\ Cardinality(Entries(t)) =
               IF Live(t) /\ ~Popped(t) THEN 1 ELSE 0
          /\ \A k \in Entries(t) : tId[t] # None /\ k = KeyOf(t)
          /\ (Live(t) /\ Popped(t)) => rpc = "store")
  /\ [][RepollKeepsEntries]_vars

\* C12 witness: a Timer is polled again after the thread popped its entry
\* and before the flag is set: its update found no key and did not
\* re-insert it; the store holds only the other Timer's entry, whose waker
\* a re-poll has replaced.
C12_RepollAfterPop ==
  /\ tpc[1] = "upd_unpark"
  /\ ~timeout[1]
  /\ Popped(1)
  /\ Entries(1) = {}
  /\ Cardinality(DOMAIN scheduled) = 1
  /\ \E k \in Entries(2) : scheduled[k].waker = "w2"
  /\ tLast[2] = "Pending"

\* C13: every registered Timer that is not dropped eventually fires: once
\* time has reached its deadline the background thread eventually sets its
\* fired flag and invokes its stored waker, under fair scheduling of the
\* thread.
C13_RegisteredTimerFires ==
  \A t \in Timers :
    (Registered(t) /\ clock >= tWhen[t]) ~>
      \/ timeout[t] /\ \E w \in Wakers : <<t, w>> \in invoked
      \/ tpc[t] \in {"drop_unpark", "dropped"}

\* C14: identifiers are unique and strictly increasing: no two Timers hold
\* the same identifier, a call of next() returns an identifier larger than
\* every identifier returned before, and so no two Timers share a key and
\* the insert of a register never lands on a key that is in the store.
C14_IdsUniqueIncreasing ==
  /\ [](\A a \in Timers, b \in Timers :
          (a # b /\ tId[a] # None /\ tId[b] # None) =>
            /\ Unwrap(tId[a]) # Unwrap(tId[b])
            /\ KeyOf(a) # KeyOf(b))
  /\ [][\A t \in Timers :
          /\ (tId[t] = None /\ tId'[t] # None) =>
               \A u \in Timers :
                 tId[u] # None => Unwrap(tId[u]) < Unwrap(tId'[t])
          /\ (tpc[t] = "reg_insert" /\ tpc'[t] = "reg_unpark") =>
               /\ KeyOf(t) \notin DOMAIN scheduled
               /\ \A k \in DOMAIN scheduled : scheduled'[k] = scheduled[k]]_vars

\* C14 witness: two Timers with the same deadline called next() one after
\* the other, both before either inserted, and both entries are in the
\* store under distinct keys.
C14_CollidingDeadlines ==
  /\ tWhen[1] = tWhen[2]
  /\ tpc[1] = "reg_unpark"
  /\ tpc[2] = "reg_unpark"
  /\ Cardinality(DOMAIN scheduled) = 2

\* C15: a Task whose Computation has completed is never resumed again: the
\* worker never polls a task whose future already returned Ready.
C15_NoResumeAfterComplete ==
  \A t \in Tasks : ~(Resuming(t) /\ fut[t] = "done")

\* C16: when a poll of a Timer has returned Pending, the waker passed to
\* that poll is eventually invoked by the background thread, unless the
\* Timer is polled again or dropped first (the runs in which the thread
\* dies in its drain loop are left aside here).
C16_LatestWakerInvoked ==
  \A t \in Timers, w \in Wakers :
    (tpc[t] = "idle" /\ tLast[t] = "Pending" /\ tWaker[t] = w) ~>
      (<<t, w>> \in invoked \/ tpc[t] # "idle" \/ rpc = "panicked")

\* C17: the fire action sets the fired flag before it invokes the stored
\* waker and the flag is never reset: whenever the background thread has
\* invoked a Timer's waker the Timer's flag is set, the thread invokes a
\* waker only with the flag set, a set flag stays set, and a poll whose
\* load runs after the invocation returns Ready.
C17_FlagSetBeforeWake ==
  /\ [](\A t \in Timers :
          (\E w \in Wakers : <<t, w>> \in invoked) => timeout[t])
  /\ [][/\ (rpc = "invoke" /\ rpc' # "invoke") =>
             timeout[Unwrap(rpop).val.notifier]
        /\ \A t \in Timers :
             /\ timeout[t] => timeout'[t]
             /\ (/\ tpc[t] = "load"
                 /\ tpc'[t] = "idle"
                 /\ \E w \in Wakers : <<t, w>> \in invoked) =>
                  tLast'[t] = "Ready"]_vars

\* C17 witness: the first poll of a Timer raced the fire: the thread popped
\* the entry, set the flag and invoked the waker before register returned,
\* and the poll is about to load the flag.
C17_FirstPollRacesFire ==
  /\ tpc[1] = "load"
  /\ tLast[1] = "none"
  /\ timeout[1]
  /\ <<1, "w2">> \in invoked

\* The entries of the store other than key k are the same in both states.
OthersKept(k) ==
  /\ DOMAIN scheduled' \ {k} = DOMAIN scheduled \ {k}
  /\ \A j \in DOMAIN scheduled \ {k} : scheduled'[j] = scheduled[j]

\* C18: every store operation is one atomic step with its frame: update on
\* a present key changes only that key's value (the waker, not the
\* notifier) and keeps the key set, update and delete on an absent key
\* change nothing, delete removes only its key, insert adds only its key,
\* pop_first removes exactly the minimum entry and returns it, or returns
\* none and changes nothing on an empty store, first_key changes nothing.
C18_StoreOpsKeepFrame ==
  [][/\ \A t \in Timers :
          /\ (tpc[t] = "idle" /\ tpc'[t] = "upd_unpark") =>
               /\ DOMAIN scheduled' = DOMAIN scheduled
               /\ OthersKept(<<tWhen[t], Unwrap(tHandle[t])>>)
               /\ \A k \in DOMAIN scheduled :
                    k = <<tWhen[t], Unwrap(tHandle[t])>> =>
                      /\ scheduled'[k].waker = tWaker'[t]
                      /\ scheduled'[k].notifier = scheduled[k].notifier
          /\ (tpc[t] = "idle" /\ tpc'[t] = "drop_unpark") =>
               /\ <<tWhen[t], Unwrap(tHandle[t])>> \notin DOMAIN scheduled'
               /\ OthersKept(<<tWhen[t], Unwrap(tHandle[t])>>)
          /\ (tpc[t] = "reg_insert" /\ tpc'[t] = "reg_unpark") =>
               /\ KeyOf(t) \in DOMAIN scheduled'
               /\ scheduled'[KeyOf(t)] = [waker |-> tWaker[t], notifier |-> t]
               /\ OthersKept(KeyOf(t))
     /\ (rpc = "pop" /\ rpc' # "pop") =>
          IF DOMAIN scheduled = {}
          THEN scheduled' = scheduled /\ rpop' = None
          ELSE /\ rpop' # None
               /\ Unwrap(rpop').key \in DOMAIN scheduled
               /\ Unwrap(rpop').val = scheduled[Unwrap(rpop').key]
               /\ Unwrap(rpop').key \notin DOMAIN scheduled'
               /\ OthersKept(Unwrap(rpop').key)
               /\ \A k \in DOMAIN scheduled' :
                    ~(k[1] < Unwrap(rpop').key[1])
                    /\ (k[1] = Unwrap(rpop').key[1] =>
                          k[2] > Unwrap(rpop').key[2])
     /\ (rpc \in {"first_key", "while_first"} /\ rpc' # rpc) =>
          scheduled' = scheduled]_vars

\* C18 witness: a delete on an absent key ran next to a non-empty store:
\* the Timer being dropped had fired, the other Timer's entry is there.
C18_DeleteAbsentKey ==
  /\ tpc[1] = "drop_unpark"
  /\ timeout[1]
  /\ rpop = None
  /\ Cardinality(Entries(2)) = 1

\* C19: the queue is FIFO and resumptions are serialized: every step
\* leaves the queue alone, puts one entry behind all queued ones, hands the
\* oldest entry to the worker, or (the worker dying) drops the queue; the
\* worker takes a task only when it holds none, and holds one exactly
\* while it resumes it.
C19_FifoOneAtATime ==
  /\ []((wcur # None) = (wpc \in {"poll", "wake", "wake_ready", "deliver"}))
  /\ [][/\ \/ queue' = queue
           \/ \E t \in Tasks :
                /\ queue' = queue \o <<t>>
                /\ wcur' \in {wcur, None}
           \/ /\ queue # <<>>
              /\ queue' = SubSeq(queue, 2, Len(queue))
              /\ wpc = "recv"
              /\ wcur = None
              /\ wcur' = Some(queue[1])
              /\ wpc' = "poll"
           \/ /\ wpc' = "panicked"
              /\ queue' = <<>>
        /\ (wcur' # None /\ wcur' # wcur) =>
             (wcur = None /\ queue # <<>> /\ wcur' = Some(queue[1]))]_vars

\* C19 witness: task 2 was enqueued before task 1 and again after it; the
\* worker resumes task 2 while task 1 and the later entry of task 2 wait
\* in that order.
C19_ResumesOldestFirst ==
  /\ Resuming(2)
  /\ queue = <<1, 2>>
  /\ fut[1] = "pending"
  /\ fut[2] = "pending"

\* C20: the background thread never fails while draining: the pop_first
\* that follows a first_key with a deadline <= now finds the store
\* non-empty, so the thread never panics, and the entry it pops has a
\* deadline <= now.
C20_DrainNeverFails ==
  /\ rpc # "panicked"
  /\ rpop # None => Unwrap(rpop).key[1] <= rnow

====
